---- MODULE Spec2Model ----
(***************************************************************************)
(* Model of card_maker.py: the Card class (title, font choice, wrapped     *)
(* text blocks, vertical cursor, export) and the batch driver process_csv  *)
(* with create_magical_item / create_maze_card.                            *)
(*                                                                         *)
(* A text is a sequence of one-character strings.  The canvas is the       *)
(* sequence of draw.text calls made on it (position y, string, font); the  *)
(* horizontal position depends on PIL's font metrics (draw.textsize) and   *)
(* is not part of the record.                                              *)
(***************************************************************************)
EXTENDS Integers, Sequences, FiniteSets, TLC

VARIABLES
    card,       \* Spec, SpecBatch: the Card object (a record) or NoCard
    last,       \* Spec: the last method call on the card, its arguments, the card before it, its outcome
    ncalls,     \* Spec: number of method calls made so far
    titled,     \* Spec: TRUE once an add_title call has returned successfully
    fin,        \* SpecFont: arguments of choose_font
    fout,       \* SpecFont: its result, or Pending
    pc,         \* SpecBatch: position in process_csv / create_magical_item
    card_type,  \* SpecBatch: the --card_type argument
    csv_ok,     \* SpecBatch: whether csv_path can be opened
    dir_ok,     \* SpecBatch: whether the output folder exists
    frame,      \* SpecBatch: size of frames/frame_magical_item.png
    rows,       \* SpecBatch: the rows of the csv file
    items,      \* SpecBatch: list(csv_reader), once read
    idx,        \* SpecBatch: index of the row being processed (0 before the loop)
    opened,     \* SpecBatch: number of open(csv_path) attempts
    composed,   \* SpecBatch: number of Card objects created
    saves,      \* SpecBatch: number of img.save attempts
    exported,   \* SpecBatch: the files written, in order
    printed,    \* SpecBatch: diagnostic lines printed by open/save
    log,        \* SpecBatch: the Card method calls issued for the current row, in order
    failed,     \* SpecBatch: rows in which a Card method raised
    raised      \* SpecBatch: the exception that left process_csv, or None

vars == <<card, last, ncalls, titled, fin, fout, pc, card_type, csv_ok, dir_ok,
          frame, rows, items, idx, opened, composed, saves, exported, printed,
          log, failed, raised>>

cardVars  == <<card, last, ncalls, titled>>
fontVars  == <<fin, fout>>
batchVars == <<pc, card_type, csv_ok, dir_ok, frame, rows, items, idx, opened,
               composed, saves, exported, printed, log, failed, raised>>

----------------------------------------------------------------------------
(* Bounds *)

MaxTextLen == 2
MaxCalls == 2
MaxFontLen == 7
MaxRows == 2

(* Program constants *)

initial_y_position == 20
line_height == 30
blank_line_height == 40
magical_item_space == 100

None == "None"
NoCard == [none |-> TRUE]
Pending == [pending |-> TRUE]

----------------------------------------------------------------------------
(* Texts *)

RECURSIVE SeqsUpTo(_, _)
SeqsUpTo(S, n) ==
    IF n = 0 THEN {<<>>}
    ELSE LET shorter == SeqsUpTo(S, n - 1)
         IN  shorter \cup {Append(s, x) : s \in {t \in shorter : Len(t) = n - 1}, x \in S}

Alphabet == {"a", " "}
Texts == SeqsUpTo(Alphabet, MaxTextLen)
Repeat(ch, n) == [i \in 1..n |-> ch]

\* str.replace(' ', '_')
ReplaceSpaces(title) ==
    [i \in 1..Len(title) |-> IF title[i] = " " THEN "_" ELSE title[i]]

\* truth value of a str: the empty string is false
Truthy(s) == s # <<>>

----------------------------------------------------------------------------
(* textwrap.wrap(text, width) with the default options, for texts without  *)
(* tabs, newlines or hyphens: chunks are the maximal runs of spaces and of *)
(* non-spaces; lines are filled greedily; a chunk longer than the width is *)
(* broken; whitespace at the start of a line (but the first) and at the    *)
(* end of a line is dropped.                                               *)

IsSpace(ch) == ch = " "
IsBlank(chunk) == \A i \in 1..Len(chunk) : IsSpace(chunk[i])

RunEnd(text) ==
    CHOOSE j \in 1..Len(text) :
        /\ \A k \in 1..j : IsSpace(text[k]) = IsSpace(text[1])
        /\ j = Len(text) \/ IsSpace(text[j + 1]) # IsSpace(text[1])

RECURSIVE SplitChunks(_)
SplitChunks(text) ==
    IF text = <<>> THEN <<>>
    ELSE LET j == RunEnd(text)
         IN  <<SubSeq(text, 1, j)>> \o SplitChunks(SubSeq(text, j + 1, Len(text)))

RECURSIVE Flatten(_)
Flatten(chunks) ==
    IF chunks = <<>> THEN <<>> ELSE Head(chunks) \o Flatten(Tail(chunks))

\* how many leading chunks fit into the room left on the line
RECURSIVE FitCount(_, _, _)
FitCount(chunks, room, n) ==
    IF n < Len(chunks) /\ Len(chunks[n + 1]) <= room
    THEN FitCount(chunks, room - Len(chunks[n + 1]), n + 1)
    ELSE n

RECURSIVE WrapChunks(_, _, _)
WrapChunks(chunks, width, lines) ==
    IF chunks = <<>> THEN lines
    ELSE
      LET c0 == IF IsBlank(Head(chunks)) /\ lines # <<>> THEN Tail(chunks) ELSE chunks
          k == FitCount(c0, width, 0)
          fit == SubSeq(c0, 1, k)
          rest == SubSeq(c0, k + 1, Len(c0))
          cur_len == Len(Flatten(fit))
          long == rest # <<>> /\ Len(rest[1]) > width
          space_left == width - cur_len
          cur_line == IF long THEN Append(fit, SubSeq(rest[1], 1, space_left)) ELSE fit
          rest2 == IF long
                   THEN <<SubSeq(rest[1], space_left + 1, Len(rest[1]))>> \o Tail(rest)
                   ELSE rest
          kept == IF cur_line # <<>> /\ IsBlank(cur_line[Len(cur_line)])
                  THEN SubSeq(cur_line, 1, Len(cur_line) - 1)
                  ELSE cur_line
      IN  WrapChunks(rest2, width, IF kept # <<>> THEN Append(lines, Flatten(kept)) ELSE lines)

Wrap(text, width) == WrapChunks(SplitChunks(text), width, <<>>)

----------------------------------------------------------------------------
(* class Card *)

\* __init__: the canvas size comes from the frame image; the cursor starts
\* at 20 and no title is set
NewCard(size, space) ==
    [image_width |-> size.w, image_height |-> size.h, space |-> space,
     y_position |-> initial_y_position, title |-> <<>>, drawn |-> <<>>]

\* int(k * self.ratio), self.ratio = image_width / image_height.  The frames
\* used below are sizes for which the double-precision product truncates to
\* the same integer as the exact quotient.
Scaled(k, c) == (k * c.image_width) \div c.image_height

\* faulty variant: no else branch, any style is accepted
KnownStyle_Any(style) == TRUE
KnownStyle(style) == style \in {"bold", "italic"}

\* faulty variant: the else branch picks the large font
DefaultTier_Large == "large"
DefaultTier == "normal"

\* choose_font: (font, characters), or the exception raised
choose_font(c, text, style, size) ==
    IF ~KnownStyle(style)
    THEN [err |-> "UnknownFontStyleExeption", font |-> None, characters |-> 0]
    ELSE IF Len(text) > Scaled(150, c) \/ size = "small"
    THEN [err |-> None, font |-> <<style, "small">>, characters |-> Scaled(50, c)]
    ELSE IF Len(text) > Scaled(100, c) \/ size = "normal"
    THEN [err |-> None, font |-> <<style, "normal">>, characters |-> Scaled(40, c)]
    ELSE [err |-> None, font |-> <<style, DefaultTier>>, characters |-> Scaled(30, c)]

\* add_title: the card after the call and the exception raised, if any
add_title(c, title) ==
    IF Truthy(c.title)
    THEN [card |-> c, err |-> "TitleAlreadySetExeption"]
    ELSE [card |-> [c EXCEPT
                      !.drawn = Append(@, [y |-> c.y_position, text |-> title,
                                           font |-> <<"bold", "title">>]),
                      !.y_position = @ + blank_line_height,
                      !.title = ReplaceSpaces(title)],
          err |-> None]

\* faulty variants of the test of line 123: the reserved space ignored; >= for >
Overflows_NoSpace(c) == c.y_position > c.image_height
Overflows_AtBoundary(c) == c.y_position >= c.image_height - c.space
Overflows(c) == c.y_position > c.image_height - c.space

\* the card as the overflow exception leaves it: c0 before the line's
\* advance, c1 after it
\* (faulty variant: the failed line's advance undone)
AtOverflow_RolledBack(c0, c1) == c0
AtOverflow(c0, c1) == c1

\* the loop over the wrapped lines
RECURSIVE DrawLines(_, _, _)
DrawLines(c, lines, font) ==
    IF lines = <<>> THEN [card |-> c, err |-> None]
    ELSE LET c1 == [c EXCEPT !.y_position = @ + line_height]
         IN  IF Overflows(c1)
             THEN [card |-> AtOverflow(c, c1), err |-> "CharacterLimitExceededError"]
             ELSE DrawLines([c1 EXCEPT !.drawn = Append(@, [y |-> c1.y_position,
                                                          text |-> Head(lines),
                                                          font |-> font])],
                            Tail(lines), font)

\* add_text: the card after the call and the exception raised, if any
\* (textwrap.wrap raises ValueError for a width below 1)
add_text(c, text, style, size) ==
    LET f == choose_font(c, text, style, size)
    IN  IF f.err # None THEN [card |-> c, err |-> f.err]
        ELSE IF f.characters <= 0 THEN [card |-> c, err |-> "ValueError"]
        ELSE LET r == DrawLines(c, Wrap(text, f.characters), f.font)
             IN  IF r.err # None THEN r
                 ELSE [card |-> [r.card EXCEPT !.y_position = @ + blank_line_height],
                       err |-> None]

----------------------------------------------------------------------------
(* Spec: one card, any sequence of add_title and add_text calls *)

CardFrames == {[w |-> 8, h |-> 160], [w |-> 8, h |-> 180], [w |-> 12, h |-> 240]}
Styles == {"bold", "italic", "underline"}
Sizes == {"small", "normal", "large"}

BatchIdle ==
    /\ pc = "idle" /\ card_type = None /\ csv_ok = FALSE /\ dir_ok = FALSE
    /\ frame = None /\ rows = <<>> /\ items = <<>> /\ idx = 0 /\ opened = 0
    /\ composed = 0 /\ saves = 0 /\ exported = <<>> /\ printed = <<>>
    /\ log = <<>> /\ failed = {} /\ raised = None

FontIdle == fin = None /\ fout = Pending

Init ==
    /\ card \in {NewCard(sz, magical_item_space) : sz \in CardFrames}
    /\ last = [op |-> "init", text |-> <<>>, style |-> None, size |-> None,
               pre |-> NoCard, pre_titled |-> FALSE, err |-> None]
    /\ ncalls = 0
    /\ titled = FALSE
    /\ FontIdle
    /\ BatchIdle

AddTitleCall ==
    /\ ncalls < MaxCalls
    /\ \E title \in Texts :
         LET r == add_title(card, title)
         IN  /\ card' = r.card
             /\ last' = [op |-> "add_title", text |-> title, style |-> None,
                         size |-> None, pre |-> card, pre_titled |-> titled,
                         err |-> r.err]
             /\ titled' = (titled \/ r.err = None)
    /\ ncalls' = ncalls + 1
    /\ UNCHANGED <<fontVars, batchVars>>

AddTextCall ==
    /\ ncalls < MaxCalls
    /\ \E text \in Texts, style \in Styles, size \in Sizes :
         LET r == add_text(card, text, style, size)
         IN  /\ card' = r.card
             /\ last' = [op |-> "add_text", text |-> text, style |-> style,
                         size |-> size, pre |-> card, pre_titled |-> titled,
                         err |-> r.err]
    /\ ncalls' = ncalls + 1
    /\ UNCHANGED <<titled, fontVars, batchVars>>

Next == AddTitleCall \/ AddTextCall

Spec == Init /\ [][Next]_vars

----------------------------------------------------------------------------
(* SpecFont: choose_font as a function of its arguments *)

FontFrames == CardFrames \cup {[w |-> 1, h |-> 40], [w |-> 80, h |-> 400]}

CardIdle ==
    /\ card = NoCard
    /\ last = [op |-> "idle", text |-> <<>>, style |-> None, size |-> None,
               pre |-> NoCard, pre_titled |-> FALSE, err |-> None]
    /\ ncalls = 0
    /\ titled = FALSE

InitFont ==
    /\ fin \in [c : {NewCard(sz, magical_item_space) : sz \in FontFrames},
                text : {Repeat("a", n) : n \in 0..MaxFontLen},
                style : Styles,
                size : Sizes]
    /\ fout = Pending
    /\ CardIdle
    /\ BatchIdle

ChooseFontCall ==
    /\ fout = Pending
    /\ fout' = choose_font(fin.c, fin.text, fin.style, fin.size)
    /\ UNCHANGED <<fin, cardVars, batchVars>>

NextFont == ChooseFontCall

SpecFont == InitFont /\ [][NextFont]_vars

----------------------------------------------------------------------------
(* SpecBatch: process_csv over the rows of the csv file *)

\* 'Magicky predmet' (the accented letters of the source written in ASCII;
\* only the length and the spaces of a text matter to the layout)
Kicker == <<"M", "a", "g", "i", "c", "k", "y", " ",
            "p", "r", "e", "d", "m", "e", "t">>

\* f'Patri do setu: {item["Set"]}  [{item["SetPocet"]}]'
SetLine(item) ==
    <<"P", "a", "t", "r", "i", " ", "d", "o", " ", "s", "e", "t", "u", ":", " ">>
    \o item.Set \o <<" ", " ", "[">> \o item.SetPocet \o <<"]">>

\* the csv rows (column Jmeno is the source's "Jm\'eno")
RowSet ==
    [Jmeno : {<<"a", " ", "b">>, <<"c">>},
     InSet : {"1", "0"},
     Set : {<<"S">>},
     SetPocet : {<<"2">>},
     Mechanika : {<<"a", "a", " ", "a">>, <<>>},
     Legenda : {<<"a">>}]

RowLists == UNION {[1..n -> RowSet] : n \in 0..MaxRows}

\* sizes of the frame image: on the first a card with a set line overflows,
\* on the second every card fits
BatchFrames == {[w |-> 80, h |-> 400], [w |-> 100, h |-> 500]}

CardTypes == {"magical-items", "maze-cards", "foo"}

InitBatch ==
    /\ pc = "start"
    /\ card_type \in CardTypes
    /\ csv_ok \in BOOLEAN
    /\ dir_ok \in BOOLEAN
    /\ frame \in BatchFrames
    /\ rows \in RowLists
    /\ items = <<>> /\ idx = 0 /\ opened = 0 /\ composed = 0 /\ saves = 0
    /\ exported = <<>> /\ printed = <<>> /\ log = <<>> /\ failed = {}
    /\ raised = None
    /\ CardIdle
    /\ FontIdle

\* an exception leaves create_card and process_csv: nothing catches it
\* (faulty variant: caught per row, the loop goes on)
Propagate_CaughtPerRow(e) == pc' = "loop" /\ raised' = raised
Propagate(e) == pc' = "raised" /\ raised' = e

\* faulty variant of ProcessStart: the open of line 209 done before the
\* selection of create_card
ProcessStart_OpenFirst ==
    /\ pc = "start"
    /\ opened' = opened + 1
    /\ printed' = printed \o <<"trying to open file">>
    /\ IF card_type \in {"magical-items", "maze-cards"}
       THEN pc' = "read" /\ raised' = raised
       ELSE Propagate("UnknownCardTypeException")
    /\ UNCHANGED <<card_type, csv_ok, dir_ok, frame, rows, items, idx, composed,
                   saves, exported, log, failed, cardVars, fontVars>>

\* process_csv, lines 199-206: the first print and the selection of create_card
ProcessStart ==
    /\ pc = "start"
    /\ printed' = Append(printed, "trying to open file")
    /\ IF card_type \in {"magical-items", "maze-cards"}
       THEN pc' = "open" /\ raised' = raised
       ELSE Propagate("UnknownCardTypeException")
    /\ UNCHANGED <<card_type, csv_ok, dir_ok, frame, rows, items, idx, opened,
                   composed, saves, exported, log, failed, cardVars, fontVars>>

\* lines 208-212: open(csv_path); an OSError is printed and swallowed
OpenCsv ==
    /\ pc = "open"
    /\ opened' = opened + 1
    /\ printed' = Append(printed, IF csv_ok THEN "success" ELSE "cannot open file")
    /\ pc' = "read"
    /\ UNCHANGED <<card_type, csv_ok, dir_ok, frame, rows, items, idx, composed,
                   saves, exported, log, failed, raised, cardVars, fontVars>>

\* lines 214-215: csv_file is unbound when the open failed
ReadRows ==
    /\ pc = "read"
    /\ IF csv_ok
       THEN items' = rows /\ pc' = "loop" /\ raised' = raised
       ELSE items' = items /\ Propagate("UnboundLocalError")
    /\ UNCHANGED <<card_type, csv_ok, dir_ok, frame, rows, idx, opened, composed,
                   saves, exported, printed, log, failed, cardVars, fontVars>>

\* line 217: the next item, or the end of the loop
NextItem ==
    /\ pc = "loop"
    /\ IF idx < Len(items)
       THEN /\ idx' = idx + 1
            /\ pc' = IF card_type = "magical-items" THEN "new_card" ELSE "maze_card"
       ELSE /\ idx' = idx
            /\ pc' = "close"
    /\ UNCHANGED <<card_type, csv_ok, dir_ok, frame, rows, items, opened, composed,
                   saves, exported, printed, log, failed, raised, cardVars, fontVars>>

\* create_maze_card: the body is "..."
CreateMazeCard ==
    /\ pc = "maze_card"
    /\ pc' = "loop"
    /\ UNCHANGED <<card_type, csv_ok, dir_ok, frame, rows, items, idx, opened,
                   composed, saves, exported, printed, log, failed, raised,
                   cardVars, fontVars>>

\* create_magical_item, lines 228-230
CreateCard ==
    /\ pc = "new_card"
    /\ card' = NewCard(frame, magical_item_space)
    /\ composed' = composed + 1
    /\ log' = <<>>
    /\ pc' = "kicker"
    /\ UNCHANGED <<card_type, csv_ok, dir_ok, frame, rows, items, idx, opened,
                   saves, exported, printed, failed, raised, last, ncalls, titled,
                   fontVars>>

\* one Card method call of create_magical_item: r is its outcome, call the
\* log entry, next the position after it
CardStep(r, call, next) ==
    /\ card' = r.card
    /\ log' = Append(log, call)
    /\ IF r.err = None
       THEN pc' = next /\ raised' = raised /\ failed' = failed
       ELSE Propagate(r.err) /\ failed' = failed \cup {idx}
    /\ UNCHANGED <<card_type, csv_ok, dir_ok, frame, rows, items, idx, opened,
                   composed, saves, exported, printed, last, ncalls, titled,
                   fontVars>>

\* line 231
AddKicker ==
    /\ pc = "kicker"
    /\ CardStep(add_text(card, Kicker, "italic", "normal"),
                <<"add_text", Kicker, "italic", "normal">>, "title")

\* line 232
AddTitle ==
    /\ pc = "title"
    /\ CardStep(add_title(card, items[idx].Jmeno),
                <<"add_title", items[idx].Jmeno>>, "set_line")

\* faulty variant: Python truth value of the field instead of == "1"
SetLineWanted_Truthy(item) == item.InSet # ""
SetLineWanted(item) == item.InSet = "1"

\* lines 233-234
AddSetLine ==
    /\ pc = "set_line"
    /\ IF SetLineWanted(items[idx])
       THEN CardStep(add_text(card, SetLine(items[idx]), "italic", "small"),
                     <<"add_text", SetLine(items[idx]), "italic", "small">>, "mechanic")
       ELSE /\ pc' = "mechanic"
            /\ UNCHANGED <<card, log, raised, failed, card_type, csv_ok, dir_ok,
                           frame, rows, items, idx, opened, composed, saves,
                           exported, printed, last, ncalls, titled, fontVars>>

\* line 235: style and size are the defaults 'bold', 'large'
AddMechanic ==
    /\ pc = "mechanic"
    /\ CardStep(add_text(card, items[idx].Mechanika, "bold", "large"),
                <<"add_text", items[idx].Mechanika, "bold", "large">>, "flavor")

\* line 236: size is the default 'large'
AddFlavor ==
    /\ pc = "flavor"
    /\ CardStep(add_text(card, items[idx].Legenda, "italic", "large"),
                <<"add_text", items[idx].Legenda, "italic", "large">>, "save")

\* save_into_file: whether the file was written, what was printed, and the
\* exception that leaves the method (first a faulty variant without the
\* except clause)
save_into_file_Uncaught(c, folder_ok) ==
    IF folder_ok
    THEN [written |-> TRUE, out |-> <<"img_path", "saving into">>, err |-> None]
    ELSE [written |-> FALSE, out |-> <<"img_path">>, err |-> "OSError"]
save_into_file(c, folder_ok) ==
    IF folder_ok
    THEN [written |-> TRUE, out |-> <<"img_path", "saving into">>, err |-> None]
    ELSE [written |-> FALSE, out |-> <<"img_path", "folder does not exist">>,
          err |-> None]

\* line 237
SaveCard ==
    /\ pc = "save"
    /\ LET r == save_into_file(card, dir_ok)
       IN  /\ saves' = saves + 1
           /\ log' = Append(log, <<"save_into_file">>)
           /\ printed' = printed \o r.out
           /\ exported' = IF r.written THEN Append(exported, card.title) ELSE exported
           /\ IF r.err = None
              THEN pc' = "loop" /\ raised' = raised
              ELSE Propagate(r.err)
    /\ UNCHANGED <<card, card_type, csv_ok, dir_ok, frame, rows, items, idx,
                   opened, composed, failed, last, ncalls, titled, fontVars>>

\* line 220
CloseCsv ==
    /\ pc = "close"
    /\ pc' = "done"
    /\ UNCHANGED <<card_type, csv_ok, dir_ok, frame, rows, items, idx, opened,
                   composed, saves, exported, printed, log, failed, raised,
                   cardVars, fontVars>>

NextBatch ==
    \/ ProcessStart
    \/ OpenCsv
    \/ ReadRows
    \/ NextItem
    \/ CreateMazeCard
    \/ CreateCard
    \/ AddKicker
    \/ AddTitle
    \/ AddSetLine
    \/ AddMechanic
    \/ AddFlavor
    \/ SaveCard
    \/ CloseCsv

SpecBatch == InitBatch /\ [][NextBatch]_vars

----------------------------------------------------------------------------
(* Properties of one card (Spec) *)

Limit(c) == c.image_height - c.space
TextLines(c) == {i \in DOMAIN c.drawn : c.drawn[i].font[2] # "title"}

\* C1: once add_title has returned successfully on a card, every later
\* add_title on it raises TitleAlreadySetExeption and leaves the stored title
\* as it was.
C1_SecondTitleAlwaysRejected ==
    (last.op = "add_title" /\ last.pre_titled) =>
        /\ last.err = "TitleAlreadySetExeption"
        /\ card.title = last.pre.title

\* C2 as stated: after any add_title or add_text call, failed or not, the
\* cursor has not decreased and is at most image_height - space.
C2_CursorNeverPastLimit ==
    last.op \in {"add_title", "add_text"} =>
        /\ card.y_position >= last.pre.y_position
        /\ card.y_position <= Limit(card)

\* C2 as amended: the cursor never decreases, and add_text draws no line at a
\* position beyond image_height - space (the cursor itself may pass it).
C2_CursorMonotoneLinesWithinLimit ==
    /\ last.op \in {"add_title", "add_text"} =>
           card.y_position >= last.pre.y_position
    /\ \A i \in TextLines(card) : card.drawn[i].y <= Limit(card)

C2_Witness ==
    /\ last.op = "add_text"
    /\ last.err = "CharacterLimitExceededError"
    /\ TextLines(card) # {}
    /\ card.y_position > Limit(card)

\* C3: add_text at cursor y on a text of n wrapped lines raises
\* CharacterLimitExceededError exactly when a line of the block would land
\* beyond image_height - space (y + 30n > image_height - space, n >= 1); a
\* block that fits, one ending a line height above the boundary or on it
\* included, raises nothing and leaves the cursor at y + 30n + 40.
C3_OverflowIffBlockDoesNotFit ==
    (last.op = "add_text" /\ last.style \in {"bold", "italic"}) =>
        LET pre == last.pre
            n == Len(Wrap(last.text,
                          choose_font(pre, last.text, last.style, last.size).characters))
            past == n >= 1 /\ pre.y_position + 30 * n > Limit(pre)
        IN  /\ (last.err = "CharacterLimitExceededError") <=> past
            /\ ~past => /\ last.err = None
                        /\ card.y_position = pre.y_position + 30 * n + 40

C3_Witness ==
    /\ last.op = "add_text"
    /\ last.err = None
    /\ Len(card.drawn) = Len(last.pre.drawn) + 1
    /\ card.drawn[Len(card.drawn)].y = Limit(card) - 30

\* C5: add_text with a style other than 'bold' or 'italic' raises
\* UnknownFontStyleExeption and leaves canvas, cursor and title untouched.
C5_UnknownStyleFailsBeforeDrawing ==
    (last.op = "add_text" /\ last.style \notin {"bold", "italic"}) =>
        /\ last.err = "UnknownFontStyleExeption"
        /\ card.drawn = last.pre.drawn
        /\ card.y_position = last.pre.y_position
        /\ card.title = last.pre.title

C5_Witness ==
    /\ last.op = "add_text"
    /\ last.style = "underline"
    /\ last.text # <<>>
    /\ last.err = "UnknownFontStyleExeption"
    /\ last.pre.drawn # <<>>

\* C10: when the k-th wrapped line is the first to land beyond
\* image_height - space, the k-1 lines before it are on the canvas, no later
\* line is, the cursor is 30k past its value at the call and the trailing
\* 40 is not added.
C10_OverflowKeepsPartialBlock ==
    (last.op = "add_text" /\ last.err = "CharacterLimitExceededError") =>
        LET pre == last.pre
            f == choose_font(pre, last.text, last.style, last.size)
            lines == Wrap(last.text, f.characters)
            y0 == pre.y_position
            k == CHOOSE j \in 1..Len(lines) :
                     /\ y0 + 30 * j > Limit(pre)
                     /\ \A i \in 1..(j - 1) : y0 + 30 * i <= Limit(pre)
        IN  /\ card.drawn = pre.drawn \o
                   [i \in 1..(k - 1) |-> [y |-> y0 + 30 * i, text |-> lines[i],
                                          font |-> f.font]]
            /\ card.y_position = y0 + 30 * k
            /\ card.title = pre.title

C10_Witness ==
    /\ last.op = "add_text"
    /\ last.err = "CharacterLimitExceededError"
    /\ Len(card.drawn) > Len(last.pre.drawn)

----------------------------------------------------------------------------
(* Properties of choose_font (SpecFont) *)

\* b is the budget returned where the claim gives k * w / h
BudgetOk(exact, b, k, w, h) ==
    IF exact THEN b * h = k * w
    ELSE b * h <= k * w /\ k * w < (b + 1) * h

FontTable(exact) ==
    (fout # Pending /\ fin.style \in {"bold", "italic"}) =>
        LET L == Len(fin.text)
            w == fin.c.image_width
            h == fin.c.image_height
        IN  /\ fout.err = None
            /\ IF L * h > 150 * w \/ fin.size = "small"
               THEN /\ fout.font = <<fin.style, "small">>
                    /\ BudgetOk(exact, fout.characters, 50, w, h)
               ELSE IF L * h > 100 * w \/ fin.size = "normal"
               THEN /\ fout.font = <<fin.style, "normal">>
                    /\ BudgetOk(exact, fout.characters, 40, w, h)
               ELSE /\ fout.font = <<fin.style, "normal">>
                    /\ BudgetOk(exact, fout.characters, 30, w, h)

\* C4 as stated: the tier is small / normal / normal by the first matching
\* branch and the budget is 50r / 40r / 30r, r = width / height.
C4_TierAndExactBudget == FontTable(TRUE)

\* C4 as amended: same tiers, and the budget is 50r / 40r / 30r truncated to
\* an integer.
C4_TierAndTruncatedBudget == FontTable(FALSE)

C4_Witness ==
    /\ fout # Pending
    /\ fin.size = "normal"
    /\ Len(fin.text) * fin.c.image_height > 150 * fin.c.image_width
    /\ fout.font = <<fin.style, "small">>

----------------------------------------------------------------------------
(* Properties of the batch (SpecBatch) *)

IsPrefix(a, b) == Len(a) <= Len(b) /\ SubSeq(b, 1, Len(a)) = a
Count(seq, x) == Cardinality({i \in DOMAIN seq : seq[i] = x})
LayoutErrors == {"CharacterLimitExceededError", "TitleAlreadySetExeption",
                 "UnknownFontStyleExeption"}

\* C6: with a card_type other than 'magical-items' and 'maze-cards',
\* process_csv raises UnknownCardTypeException with no open of csv_path, no
\* card created and no export.
C6_UnknownTypeFailsBeforeOpen ==
    card_type \notin {"magical-items", "maze-cards"} =>
        /\ opened = 0 /\ items = <<>> /\ idx = 0
        /\ composed = 0 /\ saves = 0 /\ exported = <<>>
        /\ pc = "start" \/ (pc = "raised" /\ raised = "UnknownCardTypeException")

C6_Witness ==
    /\ card_type = "foo"
    /\ rows # <<>>
    /\ pc = "raised"
    /\ raised = "UnknownCardTypeException"

\* the calls the claim lists for one row
ExpectedCalls(item) ==
    <<<<"add_text", Kicker, "italic", "normal">>, <<"add_title", item.Jmeno>>>>
    \o (IF item.InSet = "1"
        THEN <<<<"add_text", SetLine(item), "italic", "small">>>>
        ELSE <<>>)
    \o <<<<"add_text", item.Mechanika, "bold", "large">>,
         <<"add_text", item.Legenda, "italic", "large">>,
         <<"save_into_file">>>>

\* C7: the calls issued for a magical-item row are, in order, a prefix of
\* kicker, title, set line (iff InSet is "1"), mechanic, flavor, export; the
\* first is issued on a fresh card; the row ends with all of them issued, or
\* with the call that raised as the last one issued.
C7_DrawOrder ==
    (card_type = "magical-items" /\ idx >= 1 /\ pc # "new_card") =>
        LET e == ExpectedCalls(items[idx])
        IN  /\ IsPrefix(log, e)
            /\ pc = "kicker" => log = <<>> /\ card = NewCard(frame, 100)
            /\ pc \in {"loop", "close", "done"} => log = e
            /\ idx \in failed => /\ pc = "raised"
                                 /\ log # e
                                 /\ log[Len(log)] # <<"save_into_file">>
            /\ saves = idx <=> log = e

C7_Witness ==
    /\ card_type = "magical-items"
    /\ pc = "loop"
    /\ idx = 2
    /\ items[idx].InSet = "1"
    /\ items[1].InSet = "0"
    /\ log = ExpectedCalls(items[idx])

\* C8: a missing output folder is reported by save_into_file, no exception
\* leaves it, nothing is written, and the loop goes on: after each row's
\* save attempt the next row is composed and its save attempted.
C8_MissingFolderIsNotFatal ==
    /\ raised # "OSError"
    /\ ~dir_ok => /\ exported = <<>>
                  /\ Count(printed, "folder does not exist") = saves
    /\ (card_type = "magical-items" /\ pc = "loop") =>
           saves = idx /\ composed = idx
    /\ (card_type = "magical-items" /\ pc = "done") =>
           saves = Len(rows) /\ composed = Len(rows)

C8_Witness ==
    /\ card_type = "magical-items"
    /\ ~dir_ok
    /\ pc = "done"
    /\ saves >= 2

\* C9: a layout error in row i ends process_csv with that exception: row i
\* is not exported, no later row is composed, and the rows before i stay
\* exported.
C9_LayoutErrorAbortsBatch ==
    failed # {} =>
        /\ pc = "raised"
        /\ raised \in LayoutErrors
        /\ failed = {idx}
        /\ composed = idx
        /\ saves = idx - 1
        /\ exported = IF dir_ok
                      THEN [j \in 1..(idx - 1) |-> ReplaceSpaces(items[j].Jmeno)]
                      ELSE <<>>
        /\ ~ENABLED NextBatch

C9_Witness ==
    /\ pc = "raised"
    /\ raised = "CharacterLimitExceededError"
    /\ idx = 2
    /\ Len(items) >= 2
    /\ Len(exported) = 1

====
